---- MODULE Spec2Model ----
(***************************************************************************)
(* BabyBitcoin API (src/server.js): an express server over one MongoDB     *)
(* collection of purchase records ("tx").  The file holds two definitions  *)
(* of the server: lines 1-161 (copy 1) and lines 163-338 (copy 2).         *)
(*                                                                         *)
(* JavaScript strings are sequences of one-character strings, so that      *)
(* toLowerCase, trim and parseInt are computed, not assumed.  JavaScript   *)
(* values are records tagged by their typeof: [t |-> "undef"],             *)
(* [t |-> "num", v |-> n], [t |-> "str", v |-> s], and [t |-> "nan"] for   *)
(* the number NaN.                                                         *)
(***************************************************************************)
EXTENDS Integers, Sequences, FiniteSets, Bags, TLC

VARIABLES copy, seed, ledger, now, inflight, created, resp

vars == <<copy, seed, ledger, now, inflight, created, resp>>

\* ---------------------------------------------------------------- bounds

\* buy requests admitted past validation in one behaviour
MaxBuys == 2
\* buy requests awaiting the database at the same time
MaxInflight == 2
\* clock advances in one behaviour
MaxTicks == 1

\* ------------------------------------------------------ JavaScript values

Undef == [t |-> "undef"]
NaN == [t |-> "nan"]
Num(n) == [t |-> "num", v |-> n]
Str(s) == [t |-> "str", v |-> s]

\* !x for the values that occur here: undefined, "", 0 and NaN are falsy
Falsy(x) ==
    \/ x.t = "undef"
    \/ x.t = "nan"
    \/ (x.t = "num" /\ x.v = 0)
    \/ (x.t = "str" /\ x.v = <<>>)

Digits == <<"0", "1", "2", "3", "4", "5", "6", "7", "8", "9">>

IsDigit(c) == \E d \in 1..10 : Digits[d] = c

DigitValue(c) == (CHOOSE d \in 1..10 : Digits[d] = c) - 1

RECURSIVE NatToString(_)
NatToString(n) ==
    IF n < 10 THEN <<Digits[n + 1]>>
    ELSE NatToString(n \div 10) \o <<Digits[(n % 10) + 1]>>

\* String(x)
String(x) ==
    CASE x.t = "str" -> x.v
      [] x.t = "num" -> IF x.v < 0 THEN <<"-">> \o NatToString(-x.v) ELSE NatToString(x.v)
      [] x.t = "nan" -> <<"N", "a", "N">>
      [] OTHER -> <<"u", "n", "d", "e", "f", "i", "n", "e", "d">>

Upper == <<"A", "B", "C", "D", "E", "F", "G", "H", "I", "J", "K", "L", "M",
           "N", "O", "P", "Q", "R", "S", "T", "U", "V", "W", "X", "Y", "Z">>

Lower == <<"a", "b", "c", "d", "e", "f", "g", "h", "i", "j", "k", "l", "m",
           "n", "o", "p", "q", "r", "s", "t", "u", "v", "w", "x", "y", "z">>

LowerChar(c) ==
    IF \E k \in 1..26 : Upper[k] = c
    THEN Lower[CHOOSE k \in 1..26 : Upper[k] = c]
    ELSE c

\* a toLowerCase that changes nothing
ToLowerCaseIdentity(s) == s

\* String.prototype.toLowerCase
ToLowerCase(s) == [i \in 1..Len(s) |-> LowerChar(s[i])]

RECURSIVE TrimStart(_)
TrimStart(s) == IF s # <<>> /\ Head(s) = " " THEN TrimStart(Tail(s)) ELSE s

RECURSIVE TrimEnd(_)
TrimEnd(s) ==
    IF s # <<>> /\ s[Len(s)] = " " THEN TrimEnd(SubSeq(s, 1, Len(s) - 1)) ELSE s

\* String.prototype.trim
Trim(s) == TrimEnd(TrimStart(s))

RECURSIVE DigitPrefix(_, _)
\* the value of the longest prefix of decimal digits of s, read after acc
DigitPrefix(s, acc) ==
    IF s # <<>> /\ IsDigit(Head(s))
    THEN DigitPrefix(Tail(s), 10 * acc + DigitValue(Head(s)))
    ELSE acc

\* parseInt(s, 10): leading white space, an optional sign, then digits
ParseInt(s) ==
    LET t == TrimStart(s)
        neg == t # <<>> /\ Head(t) = "-"
        u == IF t # <<>> /\ Head(t) \in {"-", "+"} THEN Tail(t) ELSE t
    IN  IF u = <<>> \/ ~IsDigit(Head(u)) THEN NaN
        ELSE Num(IF neg THEN -DigitPrefix(u, 0) ELSE DigitPrefix(u, 0))

\* Math.min(x, n) for a number n
MathMin(x, n) ==
    IF x.t = "nan" THEN NaN ELSE IF x.v < n THEN x ELSE Num(n)

\* ------------------------------------------------------------ TxSchema

\* network: enum ['eth', 'bsc', 'other']
NetworkEnum == {<<"e", "t", "h">>, <<"b", "s", "c">>, <<"o", "t", "h", "e", "r">>}

\* the cast of a Number path: a number stays, a string of digits becomes its
\* number, and anything else leaves no number (a CastError, or a missing value)
CastNumber(x) ==
    IF x.t = "num" THEN x
    ELSE IF x.t = "str" /\ x.v # <<>> /\ \A i \in 1..Len(x.v) : IsDigit(x.v[i])
         THEN Num(DigitPrefix(x.v, 0))
         ELSE Undef

\* the document Tx.create builds from its argument: the String setters of
\* address (lowercase, trim), the casts of tokens, usd and network
TxCast(arg) ==
    [address |-> Trim(ToLowerCase(arg.address)),
     tokens  |-> CastNumber(arg.tokens),
     usd     |-> CastNumber(arg.usd),
     network |-> String(arg.network)]

\* a schema without min: 0
MinValidatorNone(x) == TRUE

\* min: 0 of tokens and usd
MinValidator(x) == x.v >= 0

\* the validators run by save(): required on address, tokens and usd, min: 0
\* on tokens and usd, enum on network
TxValidate(doc) ==
    /\ doc.address # <<>>
    /\ doc.tokens.t = "num" /\ MinValidator(doc.tokens)
    /\ doc.usd.t = "num" /\ MinValidator(doc.usd)
    /\ doc.network \in NetworkEnum

\* timestamps: true -- createdAt is the server's clock when the document is
\* saved; the stored document
TxStamp(doc, at) ==
    [address |-> doc.address, tokens |-> doc.tokens.v, usd |-> doc.usd.v,
     network |-> doc.network, createdAt |-> at]

\* ------------------------------------------------------- aggregation stages

\* $last in place of $sum
SumLast(xs) == IF xs = <<>> THEN 0 ELSE xs[Len(xs)]

RECURSIVE Sum(_)
\* $sum over a sequence of numbers
Sum(xs) == IF xs = <<>> THEN 0 ELSE Head(xs) + Sum(Tail(xs))

Reverse(s) == [i \in 1..Len(s) |-> s[Len(s) + 1 - i]]

\* the order in which the database hands over documents that a stage or a sort
\* leaves unordered: it promises none, so either is possible
TieOrders == {"natural", "reverse"}

Arrange(s, tie) == IF tie = "natural" THEN s ELSE Reverse(s)

\* { $match: { createdAt: { $gte: from } } }
Match(docs, from) == SelectSeq(docs, LAMBDA d : d.createdAt >= from)

\* { $group: { _id: '$address', tokens: { $sum: '$tokens' } } } followed by
\* { $project: { _id: 0, address: '$_id', tokens: 1 } }: one entry per address
GroupByAddress(docs, tie) ==
    LET idx == [i \in 1..Len(docs) |-> i]
        firsts == SelectSeq(idx, LAMBDA i :
                      \A j \in 1..(i - 1) : docs[j].address # docs[i].address)
        total(a) == Sum([k \in 1..Len(SelectSeq(docs, LAMBDA d : d.address = a)) |->
                            SelectSeq(docs, LAMBDA d : d.address = a)[k].tokens])
    IN  Arrange([g \in 1..Len(firsts) |->
                    [address |-> docs[firsts[g]].address,
                     tokens  |-> total(docs[firsts[g]].address)]], tie)

\* { $sort: { tokens: 1 } }
SortTokensAscending(gs) ==
    LET idx == [i \in 1..Len(gs) |-> i]
        ord == SortSeq(idx, LAMBDA i, j :
                   \/ gs[i].tokens < gs[j].tokens
                   \/ (gs[i].tokens = gs[j].tokens /\ i < j))
    IN  [k \in 1..Len(gs) |-> gs[ord[k]]]

\* { $sort: { tokens: -1 } }: entries with equal tokens stay as they came
SortTokensDescending(gs) ==
    LET idx == [i \in 1..Len(gs) |-> i]
        ord == SortSeq(idx, LAMBDA i, j :
                   \/ gs[i].tokens > gs[j].tokens
                   \/ (gs[i].tokens = gs[j].tokens /\ i < j))
    IN  [k \in 1..Len(gs) |-> gs[ord[k]]]

\* { $limit: n }
Limit(s, n) == IF Len(s) <= n THEN s ELSE SubSeq(s, 1, n)

\* .sort({ createdAt: -1 }): documents with equal createdAt in either order
SortCreatedAtDescending(docs, tie) ==
    LET ds == Arrange(docs, tie)
        idx == [i \in 1..Len(ds) |-> i]
        ord == SortSeq(idx, LAMBDA i, j :
                   \/ ds[i].createdAt > ds[j].createdAt
                   \/ (ds[i].createdAt = ds[j].createdAt /\ i < j))
    IN  [k \in 1..Len(ds) |-> ds[ord[k]]]

\* .limit(n) of a find: 0 means no limit, a negative n means |n| in one batch
FindLimit(docs, n) ==
    IF n = 0 THEN docs ELSE Limit(docs, IF n < 0 THEN -n ELSE n)

\* $push in place of $addToSet: one value per document
AddToSetEveryDocument(docs) == {<<i, docs[i].address>> : i \in 1..Len(docs)}

\* the distinct values of $addToSet: '$address'
AddToSet(docs) == {docs[i].address : i \in 1..Len(docs)}

\* ------------------------------------------------------------- constants

\* 24 * 60 * 60 * 1000 milliseconds
DayMs == 24 * 60 * 60 * 1000

\* { $limit: 10 }
LeaderboardLimit == 10

\* req.query.limit || '200'
DefaultLimit == <<"2", "0", "0">>

\* Math.min(..., 1000)
MaxLimit == 1000

\* network || 'eth'
DefaultNetwork == Str(<<"e", "t", "h">>)

\* range === 'daily'
Daily == <<"d", "a", "i", "l", "y">>

\* ------------------------------------------------------------- responses

\* res.status(status).json(body); body.ok is "absent" when the body has no ok
\* field (copy 1 sends the data itself), body.error likewise
Reply(route, req, status, ok, data, error) ==
    [route |-> route, req |-> req, status |-> status,
     body |-> [ok |-> ok, data |-> data, error |-> error]]

NoResponse == Reply("none", <<>>, 0, "absent", <<>>, "absent")

\* a successful read: copy 1 sends the data, copy 2 { ok: true, data }
Success(route, req, data) ==
    Reply(route, req, 200, IF copy = 1 THEN "absent" ELSE "true", data, "absent")

\* the catch branch of a read route: copy 1 answers { ok: false } itself, copy 2
\* hands the error to the error handler
ReadError(route, req) ==
    Reply(route, req, 500, "false", <<>>,
          IF copy = 1 THEN "absent" ELSE "Unexpected server error")

\* the catch branch of POST /buy
BuyError(req) ==
    Reply("buy", req, 500, "false", <<>>,
          IF copy = 1 THEN "Server error" ELSE "Unexpected server error")

\* ---------------------------------------------------------------- inputs

\* request bodies of POST /buy: { address, tokens, usd, network? }
Body(address, tokens, usd, network) ==
    [address |-> address, tokens |-> tokens, usd |-> usd, network |-> network]

GoodBodies ==
    {Body(Str(<<"A">>), Num(2), Num(3), Undef),
     Body(Str(<<" ", "a", " ">>), Num(0), Num(1), Str(<<"b", "s", "c">>)),
     Body(Num(7), Num(1), Num(0), Str(<<"o", "t", "h", "e", "r">>))}

BadBodies ==
    {Body(Undef, Num(1), Num(1), Undef),
     Body(Str(<<>>), Num(1), Num(1), Undef),
     Body(Str(<<"a">>), Str(<<"t", "e", "n">>), Num(1), Undef),
     Body(Str(<<"a">>), Undef, Num(1), Undef),
     Body(Str(<<"a">>), Num(1), Str(<<"5">>), Undef),
     Body(Str(<<"a">>), Num(-1), Num(1), Undef),
     Body(Str(<<"a">>), Num(1), Num(-1), Undef),
     Body(Str(<<"a">>), Num(1), Num(1), Str(<<"s", "o", "l">>)),
     Body(Str(<<" ">>), Num(1), Num(1), Undef)}

Bodies == GoodBodies \cup BadBodies

\* req.query.range of GET /leaderboard
Ranges == {Undef, Str(<<"a", "l", "l">>), Str(Daily)}

\* req.query.limit of GET /transactions
Limits ==
    {Undef, Str(<<"0">>), Str(<<"1">>), Str(<<"2">>), Str(<<"-", "1">>),
     Str(<<"a", "b", "c">>), Str(<<"1", "0", "0", "1">>)}

\* how far the clock moves between two events: a day, or a day and a millisecond
Jumps == {DayMs, DayMs + 1}

Ticks(t) == t \div DayMs

\* a collection the server may find at start, written before it: ten buyers
SeedTokens == <<6, 5, 5, 4, 4, 3, 3, 2, 2, 1>>

TenBuyers ==
    [i \in 1..10 |->
        [address |-> <<Lower[IF i = 10 THEN 1 ELSE i + 3]>>, tokens |-> SeedTokens[i], usd |-> 1,
         network |-> <<"e", "t", "h">>, createdAt |-> 0]]

\* ----------------------------------------------------------------- state

\* either copy of the server starts on the collection docs
Start(docs) ==
    /\ copy \in {1, 2}
    /\ seed = docs
    /\ ledger = docs
    /\ now = 1
    /\ inflight = EmptyBag
    /\ created = 0
    /\ resp = NoResponse

\* the server starts on an empty collection
Init == Start(<<>>)

\* the server starts on a collection of ten buyers
InitSeeded == Start(TenBuyers)

\* the server's clock (Date.now(), in milliseconds since the newest record found
\* at start) moves on
Tick(d) ==
    /\ resp = NoResponse
    /\ Ticks(now) < MaxTicks
    /\ now' = now + d
    /\ UNCHANGED <<copy, seed, ledger, inflight, created, resp>>

\* GET /health
Health ==
    /\ resp = NoResponse
    /\ resp' = Reply("health", <<>>, 200, "true", <<>>, "absent")
    /\ UNCHANGED <<copy, seed, ledger, now, inflight, created>>

\* a check of the address alone
MissingFieldsAddressOnly(body) == Falsy(body.address)

\* !address || typeof tokens !== 'number' || typeof usd !== 'number'
MissingFields(body) ==
    Falsy(body.address) \/ body.tokens.t # "num" \/ body.usd.t # "num"

\* POST /buy up to its await: the 400 check, String(address).toLowerCase(),
\* and Tx.create up to the insert it sends (cast, validate, timestamps)
Buy(body) ==
    /\ resp = NoResponse
    /\ IF MissingFields(body)
       THEN /\ resp' = Reply("buy", body, 400, "false", <<>>,
                             "Missing fields: address, tokens, usd")
            /\ UNCHANGED <<copy, seed, ledger, now, inflight, created>>
       ELSE LET doc == TxCast([address |-> ToLowerCase(String(body.address)),
                               tokens  |-> body.tokens,
                               usd     |-> body.usd,
                               network |-> IF Falsy(body.network) THEN DefaultNetwork
                                           ELSE body.network])
            IN  IF ~TxValidate(doc)
                THEN /\ resp' = BuyError(body)
                     /\ UNCHANGED <<copy, seed, ledger, now, inflight, created>>
                ELSE /\ created + BagCardinality(inflight) < MaxBuys
                     /\ BagCardinality(inflight) < MaxInflight
                     /\ inflight' = inflight (+)
                            SetToBag({[req |-> body, doc |-> TxStamp(doc, now)]})
                     /\ UNCHANGED <<copy, seed, ledger, now, created, resp>>

\* an insert that writes over the newest document
InsertOneOverLast(docs, doc) ==
    IF docs = <<>> THEN <<doc>> ELSE [docs EXCEPT ![Len(docs)] = doc]

\* the collection after the insert of one document
InsertOne(docs, doc) == Append(docs, doc)

\* the insert of a pending POST /buy succeeds: the document is in the
\* collection and the route answers 201 { ok: true }
BuyInserted(p) ==
    /\ resp = NoResponse
    /\ BagIn(p, inflight)
    /\ inflight' = inflight (-) SetToBag({p})
    /\ ledger' = InsertOne(ledger, p.doc)
    /\ created' = created + 1
    /\ resp' = Reply("buy", p.req, 201, "true", <<>>, "absent")
    /\ UNCHANGED <<copy, seed, now>>

\* the insert of a pending POST /buy fails (the database is unreachable)
BuyRejected(p) ==
    /\ resp = NoResponse
    /\ BagIn(p, inflight)
    /\ inflight' = inflight (-) SetToBag({p})
    /\ resp' = BuyError(p.req)
    /\ UNCHANGED <<copy, seed, ledger, now, created>>

\* ----------------------------------------------------------- read routes

RECURSIVE AssignAll(_, _)
\* agg.forEach(r => (out[r.address] = r.tokens)) on the object out
AssignAll(out, agg) ==
    IF agg = <<>> THEN out
    ELSE AssignAll((Head(agg).address :> Head(agg).tokens) @@ out, Tail(agg))

\* GET /balances
Balances ==
    /\ resp = NoResponse
    /\ \/ \E tie \in TieOrders :
              resp' = Success("balances", <<>>,
                              AssignAll(<<>>, GroupByAddress(ledger, tie)))
       \/ resp' = ReadError("balances", <<>>)
    /\ UNCHANGED <<copy, seed, ledger, now, inflight, created>>

\* the documents the pipeline of GET /leaderboard groups: copy 1 has no $match
\* stage, copy 2 matches {} unless range is 'daily'
LeaderboardMatch(range) ==
    IF copy = 2 /\ (IF Falsy(range) THEN <<"a", "l", "l">> ELSE String(range)) = Daily
    THEN Match(ledger, now - DayMs)
    ELSE ledger

\* the aggregate of GET /leaderboard
TopTen(docs, tie) ==
    Limit(SortTokensDescending(GroupByAddress(docs, tie)), LeaderboardLimit)

\* GET /leaderboard
Leaderboard(range) ==
    /\ resp = NoResponse
    /\ \/ \E tie \in TieOrders :
              resp' = Success("leaderboard", [range |-> range, at |-> now],
                              TopTen(LeaderboardMatch(range), tie))
       \/ resp' = ReadError("leaderboard", [range |-> range, at |-> now])
    /\ UNCHANGED <<copy, seed, ledger, now, inflight, created>>

\* Math.min(parseInt(req.query.limit || '200', 10), 1000)
RequestedLimit(limit) ==
    MathMin(ParseInt(IF Falsy(limit) THEN DefaultLimit ELSE String(limit)), MaxLimit)

\* Tx.find().sort({ createdAt: -1 }).limit(n).lean()
FindRecent(docs, n, tie) == FindLimit(SortCreatedAtDescending(docs, tie), n)

\* GET /transactions; a limit of NaN is either refused by the database (the
\* find throws) or dropped by the driver (no limit), depending on their versions
Transactions(limit) ==
    /\ resp = NoResponse
    /\ LET n == RequestedLimit(limit)
       IN  \/ /\ n.t = "num"
              /\ \E tie \in TieOrders :
                     resp' = Success("transactions", [limit |-> limit],
                                     FindRecent(ledger, n.v, tie))
           \/ /\ n.t = "nan"
              /\ \E tie \in TieOrders :
                     resp' = Success("transactions", [limit |-> limit],
                                     FindRecent(ledger, 0, tie))
           \/ resp' = ReadError("transactions", [limit |-> limit])
    /\ UNCHANGED <<copy, seed, ledger, now, inflight, created>>

\* { $group: { _id: null, raised, tokens, buyers } } and its $project: one
\* entry when there are documents, none when there are none
StatsGroup(docs) ==
    IF docs = <<>> THEN <<>>
    ELSE <<[raised |-> Sum([i \in 1..Len(docs) |-> docs[i].usd]),
            tokens |-> Sum([i \in 1..Len(docs) |-> docs[i].tokens]),
            buyers |-> Cardinality(AddToSet(docs))]>>

\* agg || { raised: 0, tokens: 0, buyers: 0 }
StatsData(groups) ==
    IF groups = <<>> THEN [raised |-> 0, tokens |-> 0, buyers |-> 0] ELSE groups[1]

\* GET /stats
Stats ==
    /\ resp = NoResponse
    /\ \/ resp' = Success("stats", <<>>, StatsData(StatsGroup(ledger)))
       \/ resp' = ReadError("stats", <<>>)
    /\ UNCHANGED <<copy, seed, ledger, now, inflight, created>>

\* res.json has written the response; the server takes the next event.  No
\* route reads resp, so taking events one response at a time loses no ledger.
ResponseSent ==
    /\ resp # NoResponse
    /\ resp' = NoResponse
    /\ UNCHANGED <<copy, seed, ledger, now, inflight, created>>

\* ------------------------------------------------------------ specification

Next ==
    \/ \E d \in Jumps : Tick(d)
    \/ Health
    \/ \E body \in Bodies : Buy(body)
    \/ \E p \in BagToSet(inflight) : BuyInserted(p)
    \/ \E p \in BagToSet(inflight) : BuyRejected(p)
    \/ Balances
    \/ \E range \in Ranges : Leaderboard(range)
    \/ \E limit \in Limits : Transactions(limit)
    \/ Stats
    \/ ResponseSent

Spec == Init /\ [][Next]_vars

SpecSeeded == InitSeeded /\ [][Next]_vars

\* ------------------------------------------------- what the claims speak of

RECURSIVE SumOver(_, _)
\* the sum of f[i] over the indices i of the set I
SumOver(I, f) ==
    IF I = {} THEN 0
    ELSE LET i == CHOOSE x \in I : TRUE
         IN  f[i] + SumOver(I \ {i}, f)

Records == 1..Len(ledger)

Addresses == {ledger[i].address : i \in Records}

RecordsOf(a) == {i \in Records : ledger[i].address = a}

TokensOf == [i \in Records |-> ledger[i].tokens]

UsdOf == [i \in Records |-> ledger[i].usd]

\* the total of address a over the whole ledger
Total(a) == SumOver(RecordsOf(a), TokensOf)

\* the records of address a created at or after the instant since
RecordsSince(a, since) == {i \in RecordsOf(a) : ledger[i].createdAt >= since}

Answered(route) == resp.route = route /\ resp.status = 200

IsUpper(c) == \E k \in 1..26 : Upper[k] = c

\* a string with no upper-case letter and no surrounding white space
Normalized(s) ==
    /\ \A i \in 1..Len(s) : ~IsUpper(s[i])
    /\ s # <<>> => (s[1] # " " /\ s[Len(s)] # " ")

SameLetter(c, d) == c = d \/ \E k \in 1..26 : {c, d} = {Upper[k], Lower[k]}

\* raw and stored differ only in letter case and in white space around raw
SameBuyer(raw, stored) ==
    \E i \in 1..(Len(raw) + 1) :
        /\ i + Len(stored) - 1 <= Len(raw)
        /\ \A k \in 1..Len(stored) : SameLetter(raw[i + k - 1], stored[k])
        /\ \A k \in 1..Len(raw) : (k < i \/ k >= i + Len(stored)) => raw[k] = " "

\* ------------------------------------------------------------------ claims

C2_LeaderboardAll ==
    (Answered("leaderboard") /\ (Falsy(resp.req.range) \/ resp.req.range.v = <<"a", "l", "l">>)) =>
        LET top == resp.body.data
            Included == {top[k].address : k \in 1..Len(top)}
        IN  /\ Len(top) <= 10
            /\ \A k \in 1..(Len(top) - 1) : top[k].tokens >= top[k + 1].tokens
            /\ \A k \in 1..Len(top) :
                   top[k].address \in Addresses /\ top[k].tokens = Total(top[k].address)
            /\ Cardinality(Included) = Len(top)
            /\ \A a \in Addresses \ Included :
                   \A k \in 1..Len(top) : Total(a) <= top[k].tokens

C2_Witness ==
    /\ Answered("leaderboard")
    /\ Falsy(resp.req.range)
    /\ Cardinality(Addresses) > 10
    /\ Len(resp.body.data) = 10
    /\ \E a \in Addresses :
           /\ \A k \in 1..10 : resp.body.data[k].address # a
           /\ Total(a) = resp.body.data[10].tokens

\* C3: GET /leaderboard with range 'daily' reports for each address the sum of
\* the tokens of its records created at or after (query time - 24h), and lists
\* no address all of whose records are older.
C3_DailyWindow ==
    (Answered("leaderboard") /\ ~Falsy(resp.req.range) /\ resp.req.range.v = Daily) =>
        LET top == resp.body.data
            since == resp.req.at - DayMs
        IN  \A k \in 1..Len(top) :
                /\ RecordsSince(top[k].address, since) # {}
                /\ top[k].tokens = SumOver(RecordsSince(top[k].address, since), TokensOf)

\* C3, of the second definition of the route alone (lines 262-283)
C3_DailyWindowCopy2 == copy = 2 => C3_DailyWindow

\* the limit a request asks for: 200 when it gives none
AskedLimit(limit) == IF Falsy(limit) THEN Num(200) ELSE ParseInt(String(limit))

\* C4: for every value of limit, GET /transactions returns no more than
\* min(limit, 1000) records (none, when that is zero or less) and no more than
\* exist; absent, limit is 200.
C4_LimitCap ==
    Answered("transactions") =>
        LET asked == AskedLimit(resp.req.limit)
            n == Len(resp.body.data)
        IN  /\ n <= Len(ledger)
            /\ n <= 1000
            /\ asked.t = "num" =>
                   n <= (IF asked.v < 0 THEN 0 ELSE IF asked.v < 1000 THEN asked.v ELSE 1000)

\* C5: GET /stats returns raised = the sum of usd, tokens = the sum of tokens
\* and buyers = the number of distinct addresses over all records; on an empty
\* ledger that is { raised: 0, tokens: 0, buyers: 0 }, a success.
C5_Stats ==
    Answered("stats") =>
        /\ resp.body.data.raised = SumOver(Records, UsdOf)
        /\ resp.body.data.tokens = SumOver(Records, TokensOf)
        /\ resp.body.data.buyers = Cardinality(Addresses)
        /\ ledger = <<>> => resp.body.data = [raised |-> 0, tokens |-> 0, buyers |-> 0]

C5_Witness ==
    /\ Answered("stats")
    /\ Cardinality(Addresses) >= 1
    /\ Len(ledger) > Cardinality(Addresses)
    /\ resp.body.data.raised > 0

C5_WitnessEmpty == Answered("stats") /\ ledger = <<>>

\* C6: a POST /buy with no address, or whose tokens or usd is not a number, is
\* answered 400 with { ok: false, ... }, and the step that answers it leaves the
\* ledger as it was.
C6_InvalidBuyRejected ==
    [][(resp'.route = "buy" /\ resp' # resp /\
        (Falsy(resp'.req.address) \/ resp'.req.tokens.t # "num" \/ resp'.req.usd.t # "num"))
       => (resp'.status = 400 /\ resp'.body.ok = "false" /\ ledger' = ledger)]_vars

C6_Witness ==
    /\ resp.route = "buy"
    /\ resp.status = 400
    /\ resp.req.address = Str(<<"a">>)
    /\ resp.req.tokens = Str(<<"t", "e", "n">>)
    /\ Len(ledger) > Len(seed)

\* C7: after a successful POST /buy has appended R, GET /transactions with
\* limit=1 returns exactly one record, and it is R, the record appended last,
\* whatever was appended before (equal creation timestamps included).
C7_LatestFirst ==
    (Answered("transactions") /\ resp.req.limit = Str(<<"1">>) /\ created > 0) =>
        resp.body.data = <<ledger[Len(ledger)]>>

\* C8: every address of the ledger is lower-case and trimmed; the record of a
\* successful buy carries the request's address up to letter case and
\* surrounding white space; so balances, leaderboard and stats count the
\* variants of one address under one key.
C8_AddressesNormalized ==
    /\ \A a \in Addresses : Normalized(a) /\ a # <<>>
    /\ (resp.route = "buy" /\ resp.status = 201) =>
           SameBuyer(String(resp.req.address), ledger[Len(ledger)].address)
    /\ Answered("balances") => \A a \in DOMAIN resp.body.data : Normalized(a)
    /\ Answered("leaderboard") =>
           \A k \in 1..Len(resp.body.data) : Normalized(resp.body.data[k].address)
    /\ Answered("stats") =>
           resp.body.data.buyers =
               Cardinality({a \in Addresses : Normalized(a)})

C8_Witness ==
    /\ resp.route = "buy"
    /\ resp.status = 201
    /\ resp.req.address = Str(<<" ", "a", " ">>)
    /\ Len(ledger) = 2
    /\ ledger[1].address = ledger[2].address

\* C9: every record of the ledger has tokens >= 0 and usd >= 0, and a POST /buy
\* carrying a negative tokens or usd is answered with an error and appends no
\* record.
C9_NonNegative ==
    /\ \A i \in Records : ledger[i].tokens >= 0 /\ ledger[i].usd >= 0
    /\ (/\ resp.route = "buy"
        /\ \/ (resp.req.tokens.t = "num" /\ resp.req.tokens.v < 0)
           \/ (resp.req.usd.t = "num" /\ resp.req.usd.v < 0))
       => (resp.status >= 400 /\ resp.body.ok = "false")

C9_Witness ==
    /\ resp.route = "buy"
    /\ resp.status = 500
    /\ resp.req.tokens = Num(-1)
    /\ Len(ledger) > Len(seed)

\* C10: the ledger is append-only under any interleaving: a step changes it
\* only by appending one record, and exactly when a POST /buy answers 201; so
\* it always holds the records it started with and one record per successful
\* buy, unchanged.
C10_AppendOnly ==
    /\ [](Len(ledger) = Len(seed) + created /\ SubSeq(ledger, 1, Len(seed)) = seed)
    /\ [][\/ (ledger' = ledger /\ created' = created /\
              ~(resp'.route = "buy" /\ resp'.status = 201 /\ resp' # resp))
          \/ (/\ Len(ledger') = Len(ledger) + 1
              /\ SubSeq(ledger', 1, Len(ledger)) = ledger
              /\ created' = created + 1
              /\ resp'.route = "buy" /\ resp'.status = 201)]_vars

C10_Witness ==
    /\ resp.route = "buy"
    /\ resp.status = 201
    /\ created = 1
    /\ BagCardinality(inflight) >= 1

====
